---- MODULE Spec2Model ----
(***************************************************************************)
(* Model of modules/train/pytorch/train_pose_net.py: the run logger        *)
(* (TrainLogger), the configuration validator (_validate_arguments) and    *)
(* the training-run controller (TrainPoseNet.start) with its checkpoint    *)
(* writer (_checkpoint).                                                   *)
(*                                                                         *)
(* The source is Python 2 (loss.data[0], a FileNotFoundError class of its  *)
(* own, no "from __future__ import division"): self.epoch/10 on two ints   *)
(* is floor division, and x % 0 raises ZeroDivisionError.                  *)
(*                                                                         *)
(* The model and the optimizer are opaque collaborators; their state is    *)
(* abstracted to the number of optimizer steps that produced it.  A loss   *)
(* log line is abstracted to the pair of its prefix and the model state it *)
(* was computed from.                                                      *)
(***************************************************************************)
EXTENDS Integers, Sequences, FiniteSets, TLC

\* ---------------------------------------------------------------- bounds
MaxEpoch == 30
MaxResumeEpoch == 10
MaxBatches == 1
MaxValBatches == 1
MaxPassBatches == 21

\* ------------------------------------------------------ program constants
val_interval == 10
log_interval == 10

\* ------------------------------------------------------------ vocabulary
\* Python's None; paths are tuples so that None compares with them.
None == <<>>

\* a checkpoint name that leaves the epoch out
CheckpointPathFixed(k, ext) == <<1, ext>>

\* out/pytorch/epoch-{k}.{ext}
CheckpointPath(k, ext) == <<k, ext>>

\* The dataset list files that exist, and two names that do not.
TrainFile == <<0, "train">>
ValFile == <<0, "val">>
DatasetFiles == {TrainFile, ValFile}
MissingTrain == <<0, "no_train">>
MissingVal == <<0, "no_val">>

Optimizers == {"MomentumSGD", "Adam"}

\* Exceptions are <<class, argument>>; Ok is "no exception".
Ok == <<"ok", None>>

VARIABLES
    files,            \* out/pytorch/epoch-*: file name -> content
    dirExists,        \* out/pytorch exists
    logExists,        \* out/pytorch/log exists
    logFile,          \* lines of out/pytorch/log
    numTrain,         \* len(train_iter): batches of one training pass
    numVal,           \* len(val_iter)
    pc,               \* position of the process
    self,             \* the TrainPoseNet object (None before construction)
    error,            \* the exception that ended the process (Ok: none)
    raisedAt,         \* the position at which it was raised
    model,            \* model parameters
    optimizer,        \* optimizer state
    logs,             \* logger.logs
    tty,              \* lines this process wrote to the live stream
    start_epoch,      \* start() local
    resume_interval,  \* start() local
    epoch,            \* loop variable of start()
    run,              \* history: number of this process
    events,           \* history: phases this process completed
    stamp,            \* history: file name -> the write that produced it:
                      \*   [run, epoch, logs], logs the logger's history then
    prev              \* history: [epoch, events] of the process before this
                      \*   one, when that process ran to its end

fsVars == <<files, dirExists, logExists, logFile>>
envVars == <<numTrain, numVal>>
procVars == <<pc, self, error, raisedAt, model, optimizer, logs, tty, start_epoch,
              resume_interval, epoch>>
histVars == <<run, events, stamp, prev>>
vars == <<files, dirExists, logExists, logFile, numTrain, numVal, pc, self, error, raisedAt,
          model, optimizer, logs, tty, start_epoch, resume_interval, epoch, run,
          events, stamp, prev>>

\* os.path.isfile(path) for the paths of the model
isfile(path, fs) == path \in DatasetFiles \/ path \in DOMAIN fs

\* ------------------------------------------------------------ TrainLogger
\* A logger is [logs, file, tty]: self.logs, the content behind self.file
\* and the lines written to the live stream.

\* TrainLogger.__init__: makedirs (an existing directory is not an error),
\* open(..., 'w') creates or truncates the log file.
TrainLogger_init == [logs |-> <<>>, file |-> <<>>, tty |-> <<>>]

\* a logger that keeps only its newest entry
write_replace(L, log) ==
    [logs |-> <<log>>,
     file |-> Append(L.file, log),
     tty |-> Append(L.tty, log)]

\* a logger that puts a new entry in front of the history
write_front(L, log) ==
    [logs |-> <<log>> \o L.logs,
     file |-> Append(L.file, log),
     tty |-> Append(L.tty, log)]

write(L, log) ==
    [logs |-> Append(L.logs, log),
     file |-> Append(L.file, log),
     tty |-> Append(L.tty, log)]

state_dict(L) == [logs |-> L.logs]

\* a restore that shows the oldest entry instead of the newest
load_state_dict_first_line(L, sd) ==
    IF sd.logs = <<>>
    THEN [logs |-> sd.logs, file |-> L.file, tty |-> L.tty, raised |-> "IndexError"]
    ELSE [logs |-> sd.logs,
          file |-> L.file \o sd.logs,
          tty |-> Append(L.tty, sd.logs[1]),
          raised |-> "none"]

\* a restore that writes to the file the line it shows, not the whole history
load_state_dict_last_line(L, sd) ==
    IF sd.logs = <<>>
    THEN [logs |-> sd.logs, file |-> L.file, tty |-> L.tty, raised |-> "IndexError"]
    ELSE [logs |-> sd.logs,
          file |-> Append(L.file, sd.logs[Len(sd.logs)]),
          tty |-> Append(L.tty, sd.logs[Len(sd.logs)]),
          raised |-> "none"]

\* self.logs is assigned first; self.logs[-1] raises IndexError on an empty
\* list, before any line is written.
load_state_dict(L, sd) ==
    IF sd.logs = <<>>
    THEN [logs |-> sd.logs, file |-> L.file, tty |-> L.tty, raised |-> "IndexError"]
    ELSE [logs |-> sd.logs,
          file |-> L.file \o sd.logs,
          tty |-> Append(L.tty, sd.logs[Len(sd.logs)]),
          raised |-> "none"]

\* ----------------------------------------------------------- TrainPoseNet
\* The keyword arguments of TrainPoseNet(**kwargs) the model keeps.  The
\* three resume paths are None or name the artifacts of one epoch key.
ResumeChoice(k, ext) == {None, CheckpointPath(k, ext)}

Kwargs(maxT, keys) ==
    UNION { [epoch : 1..maxT,
             gpu : BOOLEAN,
             opt : Optimizers \cup {"RMSprop"},
             train : {TrainFile, MissingTrain},
             val : {ValFile, MissingVal},
             resume : ResumeChoice(k, "iter"),
             resume_model : ResumeChoice(k, "model"),
             resume_opt : ResumeChoice(k, "state")] : k \in keys }

\* The first path of a sequence of paths that is not a file, as the loops of
\* _validate_arguments find it: os.path.isfile(None) raises TypeError.
RECURSIVE FirstBadPath(_, _)
FirstBadPath(paths, fs) ==
    IF paths = <<>> THEN Ok
    ELSE IF Head(paths) = None THEN <<"TypeError", None>>
    ELSE IF ~isfile(Head(paths), fs) THEN <<"FileNotFoundError", Head(paths)>>
    ELSE FirstBadPath(Tail(paths), fs)

\* the optimizer name checked before the dataset paths
_validate_arguments_reordered(s, cuda, fs) ==
    IF s.gpu /\ ~cuda THEN <<"GPUNotFoundError", None>>
    ELSE IF s.opt \notin Optimizers
         THEN <<"UnknownOptimizationMethodError", <<s.opt>> >>
    ELSE IF FirstBadPath(<<s.train, s.val>>, fs) # Ok
         THEN FirstBadPath(<<s.train, s.val>>, fs)
    ELSE IF s.resume # None
         THEN FirstBadPath(<<s.resume, s.resume_model, s.resume_opt>>, fs)
    ELSE Ok

\* _validate_arguments: Ok or the exception raised, <<class, argument>>
_validate_arguments(s, cuda, fs) ==
    IF s.gpu /\ ~cuda THEN <<"GPUNotFoundError", None>>
    ELSE IF FirstBadPath(<<s.train, s.val>>, fs) # Ok
         THEN FirstBadPath(<<s.train, s.val>>, fs)
    ELSE IF s.opt \notin Optimizers
         THEN <<"UnknownOptimizationMethodError", <<s.opt>> >>
    ELSE IF s.resume # None
         THEN FirstBadPath(<<s.resume, s.resume_model, s.resume_opt>>, fs)
    ELSE Ok

\* A world is what the phases of an epoch read and write:
\* [model, optimizer, L], L the logger.

\* _train over the batches iteration..n-1 of one pass: one optimizer step per
\* batch, a loss line for every iteration divisible by log_interval.
RECURSIVE _train_from(_, _, _)
_train_from(W, iteration, n) ==
    IF iteration >= n THEN W
    ELSE LET loss == <<"Loss", W.model>>
             stepped == [W EXCEPT !.model = @ + 1, !.optimizer = @ + 1]
             logged == IF iteration % log_interval = 0
                       THEN [stepped EXCEPT !.L = write(@, loss)]
                       ELSE stepped
         IN _train_from(logged, iteration + 1, n)

_train(W, n) == _train_from(W, 0, n)

\* _test over n validation batches: test_loss /= len(test_iter) raises
\* ZeroDivisionError for n = 0, before the line is written.
_test(W, n) ==
    IF n = 0 THEN [W |-> W, raised |-> <<"ZeroDivisionError", None>>]
    ELSE [W |-> [W EXCEPT !.L = write(@, <<"Validation/Loss", W.model>>)],
          raised |-> Ok]

\* run metadata that names the epoch just completed instead of the next one
_checkpoint_same_epoch(e, W) ==
    << <<CheckpointPath(e, "iter"), [epoch |-> e, logger |-> state_dict(W.L)]>>,
       <<CheckpointPath(e, "model"), W.model>>,
       <<CheckpointPath(e, "state"), W.optimizer>> >>

\* model weights written under the key of the next epoch
_checkpoint_model_key(e, W) ==
    << <<CheckpointPath(e, "iter"), [epoch |-> e + 1, logger |-> state_dict(W.L)]>>,
       <<CheckpointPath(e + 1, "model"), W.model>>,
       <<CheckpointPath(e, "state"), W.optimizer>> >>

\* The three torch.save calls of _checkpoint, in order: <<path, content>>
_checkpoint(e, W) ==
    << <<CheckpointPath(e, "iter"), [epoch |-> e + 1, logger |-> state_dict(W.L)]>>,
       <<CheckpointPath(e, "model"), W.model>>,
       <<CheckpointPath(e, "state"), W.optimizer>> >>

\* fs after the first n writes of a sequence of writes
RECURSIVE Written(_, _, _)
Written(fs, writes, n) ==
    IF n = 0 THEN fs
    ELSE (writes[n][1] :> writes[n][2]) @@ Written(fs, writes, n - 1)

\* the history stamps after the first n writes, each stamped with s
RECURSIVE Stamped(_, _, _, _)
Stamped(st, writes, n, s) ==
    IF n = 0 THEN st
    ELSE (writes[n][1] :> s) @@ Stamped(st, writes, n - 1, s)

World == [model |-> model, optimizer |-> optimizer,
          L |-> [logs |-> logs, file |-> logFile, tty |-> tty]]

\* ---------------------------------------------------------------- actions
Init ==
    /\ files = << >>
    /\ dirExists = FALSE
    /\ logExists = FALSE
    /\ logFile = <<>>
    /\ numTrain \in 0..MaxBatches
    /\ numVal \in 0..MaxValBatches
    /\ pc = "init"
    /\ self = None
    /\ error = Ok
    /\ raisedAt = "nowhere"
    /\ model = 0
    /\ optimizer = 0
    /\ logs = <<>>
    /\ tty = <<>>
    /\ start_epoch = 0
    /\ resume_interval = 0
    /\ epoch = 0
    /\ run = 1
    /\ events = <<>>
    /\ stamp = << >>
    /\ prev = [epoch |-> 0, events |-> <<>>]

\* The fields of the object that start() reads and the model distinguishes:
\* gpu only moves tensors, opt only selects the optimizer class, and the two
\* dataset paths name files that the validator found to exist.
Fields == {"epoch", "resume", "resume_model", "resume_opt"}

\* an exception propagates out of the process
Abort(exc) ==
    /\ pc' = "aborted"
    /\ error' = exc
    /\ raisedAt' = pc

Goto(next) ==
    /\ pc' = next
    /\ UNCHANGED <<error, raisedAt>>

\* TrainPoseNet.__init__: assigns the fields and validates them; an
\* exception leaves no object.
TrainPoseNet_init(kwargs, cuda, fs) ==
    LET v == _validate_arguments(kwargs, cuda, fs)
    IN IF v = Ok
       THEN [self |-> [f \in Fields |-> kwargs[f]], raised |-> Ok]
       ELSE [self |-> None, raised |-> v]

\* a constructor that sets up the logger before it validates
ConstructLoggerFirst(K) ==
    /\ pc = "init"
    /\ \E o \in {TrainPoseNet_init(kwargs, cuda, files) :
                    kwargs \in K, cuda \in BOOLEAN} :
          /\ self' = o.self
          /\ IF o.raised = Ok
             THEN Goto("constructed")
             ELSE /\ pc' = "rejected"
                  /\ error' = o.raised
                  /\ raisedAt' = "_validate_arguments"
    /\ dirExists' = TRUE
    /\ logExists' = TRUE
    /\ logFile' = <<>>
    /\ UNCHANGED <<files, envVars, histVars, model, optimizer, logs, tty,
                   start_epoch, resume_interval, epoch>>

\* The caller constructs a TrainPoseNet from some keyword arguments of K, with
\* torch.cuda.is_available() answering cuda.  Nothing but the object changes.
Construct(K) ==
    /\ pc = "init"
    /\ \E o \in {TrainPoseNet_init(kwargs, cuda, files) :
                    kwargs \in K, cuda \in BOOLEAN} :
          /\ self' = o.self
          /\ IF o.raised = Ok
             THEN Goto("constructed")
             ELSE /\ pc' = "rejected"
                  /\ error' = o.raised
                  /\ raisedAt' = "_validate_arguments"
    /\ UNCHANGED <<fsVars, envVars, histVars, model, optimizer, logs, tty,
                   start_epoch, resume_interval, epoch>>

\* start() up to the loop: model and optimizer (with their resume files),
\* the intervals, the logger, and the run metadata when resume is set.
\* torch.load of a path that is no file raises IOError.
Start ==
    /\ pc = "constructed"
    /\ LET loadsModel == self.resume_model # None
           loadsOpt == self.resume_opt # None
       IN IF loadsModel /\ ~isfile(self.resume_model, files)
          THEN /\ Abort(<<"IOError", self.resume_model>>)
               /\ model' = 0
               /\ UNCHANGED <<fsVars, optimizer, logs, tty, start_epoch,
                              resume_interval, epoch>>
          ELSE IF loadsOpt /\ ~isfile(self.resume_opt, files)
          THEN /\ Abort(<<"IOError", self.resume_opt>>)
               /\ model' = (IF loadsModel THEN files[self.resume_model] ELSE 0)
               /\ optimizer' = 0
               /\ UNCHANGED <<fsVars, logs, tty, start_epoch, resume_interval,
                              epoch>>
          ELSE /\ model' = (IF loadsModel THEN files[self.resume_model] ELSE 0)
               /\ optimizer' = (IF loadsOpt THEN files[self.resume_opt] ELSE 0)
               /\ resume_interval' = self.epoch \div 10
               /\ dirExists' = TRUE
               /\ logExists' = TRUE
               /\ UNCHANGED files
               /\ IF self.resume # None
                  THEN LET resume == files[self.resume]
                           L == load_state_dict(TrainLogger_init, resume.logger)
                       IN /\ start_epoch' = resume.epoch
                          /\ logs' = L.logs
                          /\ logFile' = L.file
                          /\ tty' = L.tty
                          /\ IF L.raised = "none"
                             THEN /\ Goto("train")
                                  /\ epoch' = resume.epoch
                             ELSE /\ Abort(<<L.raised, None>>)
                                  /\ epoch' = epoch
                  ELSE /\ start_epoch' = 1
                       /\ logs' = TrainLogger_init.logs
                       /\ logFile' = TrainLogger_init.file
                       /\ tty' = TrainLogger_init.tty
                       /\ Goto("train")
                       /\ epoch' = 1
    /\ UNCHANGED <<envVars, histVars, self>>

\* for epoch in trange(start_epoch, self.epoch + 1): the range is exhausted
Finish ==
    /\ pc = "train"
    /\ epoch > self.epoch
    /\ Goto("done")
    /\ UNCHANGED <<fsVars, envVars, histVars, self, model, optimizer, logs,
                   tty, start_epoch, resume_interval, epoch>>

SetWorld(W) ==
    /\ model' = W.model
    /\ optimizer' = W.optimizer
    /\ logs' = W.L.logs
    /\ logFile' = W.L.file
    /\ tty' = W.L.tty

\* self._train(...): the whole pass of one epoch
Train ==
    /\ pc = "train"
    /\ epoch <= self.epoch
    /\ SetWorld(_train(World, numTrain))
    /\ Goto("test")
    /\ events' = Append(events, <<"train", epoch>>)
    /\ UNCHANGED <<files, dirExists, logExists, envVars, self, start_epoch,
                   resume_interval, epoch, run, stamp, prev>>

\* a training pass that swallows the failure of batch j and goes on to the
\* next phase
TrainFailsAndGoesOn(j) ==
    /\ pc = "train"
    /\ epoch <= self.epoch
    /\ j < numTrain
    /\ SetWorld(_train(World, j))
    /\ pc' = "test"
    /\ error' = <<"CollaboratorError", None>>
    /\ raisedAt' = pc
    /\ UNCHANGED <<files, dirExists, logExists, envVars, self, start_epoch,
                   resume_interval, epoch, histVars>>

\* a batch source, forward/backward or optimizer failure in batch j of the
\* pass: the batches before it took effect
TrainFails(j) ==
    /\ pc = "train"
    /\ epoch <= self.epoch
    /\ j < numTrain
    /\ SetWorld(_train(World, j))
    /\ Abort(<<"CollaboratorError", None>>)
    /\ UNCHANGED <<files, dirExists, logExists, envVars, self, start_epoch,
                   resume_interval, epoch, histVars>>

\* a validation schedule shifted by one epoch
ValidationDueShifted(e) == (e + 1) % val_interval = 0

\* epoch % val_interval == 0
ValidationDue(e) == e % val_interval = 0

\* if epoch % val_interval == 0: self._test(...)
Test ==
    /\ pc = "test"
    /\ IF ValidationDue(epoch)
       THEN LET r == _test(World, numVal)
            IN /\ SetWorld(r.W)
               /\ IF r.raised = Ok
                  THEN /\ Goto("checkpoint")
                       /\ events' = Append(events, <<"validate", epoch>>)
                  ELSE /\ Abort(r.raised)
                       /\ events' = events
       ELSE /\ Goto("checkpoint")
            /\ UNCHANGED <<events, model, optimizer, logs, logFile, tty>>
    /\ UNCHANGED <<files, dirExists, logExists, envVars, self, start_epoch,
                   resume_interval, epoch, run, stamp, prev>>

\* a model failure in a validation batch: nothing was logged
TestFails ==
    /\ pc = "test"
    /\ ValidationDue(epoch)
    /\ numVal > 0
    /\ Abort(<<"CollaboratorError", None>>)
    /\ UNCHANGED <<fsVars, envVars, histVars, self, model, optimizer, logs,
                   tty, start_epoch, resume_interval, epoch>>

ThisWrite == [run |-> run, epoch |-> epoch, logs |-> logs]

\* if epoch % resume_interval == 0: self._checkpoint(...), then the next
\* epoch of the range.  x % 0 raises ZeroDivisionError.
Checkpoint ==
    /\ pc = "checkpoint"
    /\ IF resume_interval = 0
       THEN /\ Abort(<<"ZeroDivisionError", None>>)
            /\ UNCHANGED <<files, events, stamp, epoch>>
       ELSE /\ IF epoch % resume_interval = 0
               THEN /\ files' = Written(files, _checkpoint(epoch, World), 3)
                    /\ stamp' = Stamped(stamp, _checkpoint(epoch, World), 3, ThisWrite)
                    /\ events' = Append(events, <<"checkpoint", epoch>>)
               ELSE UNCHANGED <<files, events, stamp>>
            /\ Goto("train")
            /\ epoch' = epoch + 1
    /\ UNCHANGED <<dirExists, logExists, logFile, envVars, self, model,
                   optimizer, logs, tty, start_epoch, resume_interval, run,
                   prev>>

\* the n-th torch.save of _checkpoint fails: the n-1 before it took effect
CheckpointFails(n) ==
    /\ pc = "checkpoint"
    /\ resume_interval # 0
    /\ epoch % resume_interval = 0
    /\ files' = Written(files, _checkpoint(epoch, World), n - 1)
    /\ stamp' = Stamped(stamp, _checkpoint(epoch, World), n - 1, ThisWrite)
    /\ Abort(<<"IOError", _checkpoint(epoch, World)[n][1]>>)
    /\ UNCHANGED <<dirExists, logExists, logFile, envVars, self, model,
                   optimizer, logs, tty, start_epoch, resume_interval, epoch,
                   run, events, prev>>

\* the first process has ended; the operator starts a second one on the same
\* output directory
Restart ==
    /\ pc \in {"rejected", "done", "aborted"}
    /\ run = 1
    /\ run' = run + 1
    /\ pc' = "init"
    /\ self' = None
    /\ error' = Ok
    /\ raisedAt' = "nowhere"
    /\ model' = 0
    /\ optimizer' = 0
    /\ logs' = <<>>
    /\ tty' = <<>>
    /\ start_epoch' = 0
    /\ resume_interval' = 0
    /\ epoch' = 0
    /\ events' = <<>>
    /\ prev' = (IF pc = "done"
                THEN [epoch |-> self.epoch, events |-> events]
                ELSE [epoch |-> 0, events |-> <<>>])
    /\ UNCHANGED <<fsVars, envVars, stamp>>

\* The output directory of a first process is empty: no checkpoint path names
\* a file, and the paths of key 1 stand for all of them.
KwargsFresh == Kwargs(MaxEpoch, {1})

KwargsResume == Kwargs(MaxResumeEpoch, 1..MaxResumeEpoch)

Run ==
    \/ Start
    \/ Finish
    \/ Train
    \/ \E j \in 0..MaxBatches - 1 : TrainFails(j)
    \/ Test
    \/ TestFails
    \/ Checkpoint
    \/ \E n \in 1..3 : CheckpointFails(n)

\* one process on an empty output directory
Next ==
    \/ Construct(KwargsFresh)
    \/ Run

Spec == Init /\ [][Next]_vars

\* a process and its successor on the same output directory
NextResume ==
    \/ Construct(KwargsResume)
    \/ Run
    \/ Restart

SpecResume == Init /\ [][NextResume]_vars

\* A process on an empty output directory whose training pass has up to
\* MaxPassBatches batches, enough for the log stride to show.
InitBatches ==
    /\ files = << >>
    /\ dirExists = FALSE
    /\ logExists = FALSE
    /\ logFile = <<>>
    /\ numTrain \in 0..MaxPassBatches
    /\ numVal \in 0..MaxValBatches
    /\ pc = "init"
    /\ self = None
    /\ error = Ok
    /\ raisedAt = "nowhere"
    /\ model = 0
    /\ optimizer = 0
    /\ logs = <<>>
    /\ tty = <<>>
    /\ start_epoch = 0
    /\ resume_interval = 0
    /\ epoch = 0
    /\ run = 1
    /\ events = <<>>
    /\ stamp = << >>
    /\ prev = [epoch |-> 0, events |-> <<>>]

NextBatches ==
    \/ Construct(KwargsResume)
    \/ Run

SpecBatches == InitBatches /\ [][NextBatches]_vars

\* ------------------------------------------------------------- properties
Max(a, b) == IF a >= b THEN a ELSE b

Did(kind, E) == \E i \in 1..Len(events) : events[i] = <<kind, E>>

\* the epochs whose training pass completed, in the order they ran
RECURSIVE TrainedIn(_)
TrainedIn(evs) ==
    IF evs = <<>> THEN <<>>
    ELSE IF Head(evs)[1] = "train"
         THEN <<Head(evs)[2]>> \o TrainedIn(Tail(evs))
         ELSE TrainedIn(Tail(evs))

\* the process is in, or ended in, the epoch loop of start()
InLoop ==
    \/ pc \in {"train", "test", "checkpoint", "done"}
    \/ pc = "aborted" /\ raisedAt \in {"train", "test", "checkpoint"}

\* a collaborator (batch source, model, optimizer, file write) failed
CollaboratorFailed == error[1] \in {"CollaboratorError", "IOError"}

\* the checkpoint decision of epoch E has been taken
CheckpointStepTaken(E) ==
    \/ epoch > E
    \/ epoch = E /\ pc = "aborted" /\ raisedAt = "checkpoint"

\* C1: for every total epoch count T and every epoch E a run executes, the
\* controller invokes the checkpoint save at the end of E if and only if
\* E mod max(1, T div 10) = 0.
C1_CheckpointCadence ==
    (InLoop /\ ~CollaboratorFailed) =>
        \A E \in 1..MaxEpoch :
            (Did("train", E) /\ CheckpointStepTaken(E)) =>
                (Did("checkpoint", E) <=> E % Max(1, self.epoch \div 10) = 0)

\* C3: a run with start epoch N and total epochs T trains exactly the epochs
\* N..T, each once and in increasing order, and nothing before N.
C3_TrainsExactlyFromStart ==
    InLoop =>
        LET trained == TrainedIn(events)
        IN /\ \A i \in 1..Len(trained) : trained[i] = start_epoch + i - 1
           /\ Len(trained) <= Max(0, self.epoch - start_epoch + 1)
           /\ (pc \in {"done", "aborted"} /\ ~CollaboratorFailed) =>
                  Len(trained) = Max(0, self.epoch - start_epoch + 1)

\* C4: when no collaborator fails, a run with 1 <= s <= T ends only in DONE,
\* after epoch T has completed; it never aborts because of the interval
\* computation.
C4_RunTerminates ==
    /\ (pc = "aborted" /\ raisedAt \in {"train", "test", "checkpoint"}) =>
           CollaboratorFailed
    /\ (pc = "done" /\ start_epoch <= self.epoch) =>
           (epoch = self.epoch + 1 /\ Did("train", self.epoch))

\* the validation decision of epoch E has been taken
TestStepTaken(E) ==
    \/ epoch > E
    \/ epoch = E /\ pc = "checkpoint"
    \/ epoch = E /\ pc = "aborted" /\ raisedAt \in {"test", "checkpoint"}

\* a validation pass was run at epoch E (to its end, or until it raised)
ValidationRan(E) ==
    \/ Did("validate", E)
    \/ epoch = E /\ pc = "aborted" /\ raisedAt = "test"

\* C5: a validation pass runs at epoch E if and only if E mod 10 = 0,
\* whatever the total epoch count and whether or not a checkpoint is saved
\* at E.
C5_ValidationCadence ==
    InLoop =>
        \A E \in 1..MaxEpoch :
            (Did("train", E) /\ TestStepTaken(E)) =>
                (ValidationRan(E) <=> E % 10 = 0)

\* a run that validated at an epoch without a checkpoint and saved a
\* checkpoint at an epoch without validation
C5_Witness ==
    /\ pc = "train"
    /\ \E E \in 1..MaxEpoch : Did("validate", E) /\ ~Did("checkpoint", E) /\ epoch > E
    /\ \E E \in 1..MaxEpoch : Did("checkpoint", E) /\ ~Did("validate", E)

\* the process has read its run metadata: start() got past the two
\* torch.load calls of the model and the optimizer
Restoring ==
    /\ pc = "constructed"
    /\ self.resume # None
    /\ pc' # "constructed"
    /\ ~(pc' = "aborted" /\ error'[1] = "IOError")

\* C2: loading the run metadata written by save(E, ...) yields
\* start_epoch = E + 1 and the log history the logger held immediately before
\* that save, whatever was logged after it.
C2_RoundTrip ==
    [][Restoring =>
          /\ start_epoch' = stamp[self.resume].epoch + 1
          /\ logs' = stamp[self.resume].logs]_vars

\* a second process has restored a non-empty history from a checkpoint of
\* the first, which went on logging after that save
C2_Witness ==
    /\ run = 2
    /\ pc = "train"
    /\ events = <<>>
    /\ self.resume # None
    /\ logs # <<>>
    /\ logs = stamp[self.resume].logs
    /\ start_epoch = stamp[self.resume].epoch + 1
    /\ \E f \in DOMAIN files :
          f[2] = "iter" /\ Len(files[f].logger.logs) > Len(logs)

\* C6: an accepted configuration has its resume triple entirely absent, or
\* entirely set with all three files existing.
C6_ResumeTriple ==
    pc = "constructed" =>
        LET triple == {self.resume, self.resume_model, self.resume_opt}
        IN \/ triple = {None}
           \/ None \notin triple /\ \A path \in triple : isfile(path, files)

\* The four checks of the validator in their order, each with the error it
\* reports: <<passes, error>>.  A resume path passes when resume is not
\* requested.
PathError(path) ==
    IF path = None THEN <<"TypeError", None>> ELSE <<"FileNotFoundError", path>>

ResumePathPasses(kwargs, path, fs) ==
    kwargs.resume = None \/ (path # None /\ isfile(path, fs))

Checks(kwargs, cuda, fs) ==
    << <<kwargs.gpu => cuda, <<"GPUNotFoundError", None>> >>,
       <<isfile(kwargs.train, fs), <<"FileNotFoundError", kwargs.train>> >>,
       <<isfile(kwargs.val, fs), <<"FileNotFoundError", kwargs.val>> >>,
       <<kwargs.opt \in {"MomentumSGD", "Adam"},
         <<"UnknownOptimizationMethodError", <<kwargs.opt>> >> >>,
       <<ResumePathPasses(kwargs, kwargs.resume, fs), PathError(kwargs.resume)>>,
       <<ResumePathPasses(kwargs, kwargs.resume_model, fs),
         PathError(kwargs.resume_model)>>,
       <<ResumePathPasses(kwargs, kwargs.resume_opt, fs),
         PathError(kwargs.resume_opt)>> >>

FirstFailure(checks) ==
    IF \A i \in 1..Len(checks) : checks[i][1] THEN Ok
    ELSE LET first == CHOOSE i \in 1..Len(checks) :
                          /\ ~checks[i][1]
                          /\ \A j \in 1..(i - 1) : checks[j][1]
         IN checks[first][2]

C8_RejectionHasNoEffect ==
    [][/\ pc' = "rejected" =>
             /\ pc = "init"
             /\ UNCHANGED <<files, dirExists, logExists, logFile>>
             /\ UNCHANGED <<model, optimizer, logs, tty, events, stamp>>
       /\ pc = "rejected" =>
             /\ pc' = "init"
             /\ UNCHANGED <<files, dirExists, logExists, logFile, stamp>>]_vars

\* a configuration that asks for a GPU where there is none was rejected in
\* an output directory that holds a log and checkpoints
C8_Witness ==
    /\ pc = "rejected"
    /\ error[1] = "GPUNotFoundError"
    /\ logFile # <<>>
    /\ files # << >>

\* restore has just acted: start() called load_state_dict and nothing since
JustRestored ==
    /\ pc \in {"train", "aborted"}
    /\ pc = "aborted" => (raisedAt = "constructed" /\ error[1] # "IOError")
    /\ self.resume # None
    /\ events = <<>>

\* C9: for every snapshot S, the empty one included, restore(S) on a fresh
\* logger followed by snapshot() completes without error and returns S.
C9_RestoreSnapshot ==
    JustRestored =>
        /\ error = Ok
        /\ state_dict([logs |-> logs]).logs = files[self.resume].logger.logs

\* the artifacts of key E that this process wrote
Mine(E) ==
    {ext \in {"iter", "model", "state"} :
        /\ CheckpointPath(E, ext) \in DOMAIN files
        /\ stamp[CheckpointPath(E, ext)].run = run}

NoPartialTriple ==
    \A E \in 1..(MaxEpoch + 1) :
        \/ Mine(E) = {}
        \/ /\ Mine(E) = {"iter", "model", "state"}
           /\ \A ext \in Mine(E) : stamp[CheckpointPath(E, ext)].epoch = E

SaveFailed == pc = "aborted" /\ raisedAt = "checkpoint" /\ error[1] = "IOError"

EventsAfter(evs, e) ==
    IF \E i \in 1..Len(evs) : evs[i] = e
    THEN SubSeq(evs, (CHOOSE i \in 1..Len(evs) : evs[i] = e) + 1, Len(evs))
    ELSE <<>>

\* This process is the successor of a run that was not interrupted, has the
\* same total epoch count, is resumed from the three artifacts of key E that
\* run wrote, and start() got past its torch.load calls.
ResumedFrom(E) ==
    /\ run = 2
    /\ self # None
    /\ pc # "constructed"
    /\ ~(pc = "aborted" /\ raisedAt = "constructed" /\ error[1] = "IOError")
    /\ self.resume = CheckpointPath(E, "iter")
    /\ self.resume_model = CheckpointPath(E, "model")
    /\ self.resume_opt = CheckpointPath(E, "state")
    /\ self.epoch = prev.epoch

\* C11: with deterministic collaborators and the same total epoch count, a
\* run resumed from the checkpoint of epoch E performs for the epochs after E
\* the same train, validate and checkpoint events as the run that was not
\* interrupted, and at the end of each of these epochs it holds the log
\* history, the model and the optimizer state that run held there.
C11_ExactResume ==
    \A E \in 1..MaxResumeEpoch :
        (ResumedFrom(E) /\ ~CollaboratorFailed) =>
            LET rest == EventsAfter(prev.events, <<"checkpoint", E>>)
            IN /\ \A i \in 1..Len(events) : i <= Len(rest) => events[i] = rest[i]
               /\ pc \in {"done", "aborted"} => Len(events) >= Len(rest)
               /\ (/\ pc = "checkpoint"
                   /\ CheckpointPath(epoch, "iter") \in DOMAIN files
                   /\ stamp[CheckpointPath(epoch, "iter")].run = 1) =>
                      logs = stamp[CheckpointPath(epoch, "iter")].logs
               /\ (/\ pc = "checkpoint"
                   /\ CheckpointPath(epoch, "model") \in DOMAIN files
                   /\ stamp[CheckpointPath(epoch, "model")].run = 1) =>
                      model = files[CheckpointPath(epoch, "model")]
               /\ (/\ pc = "checkpoint"
                   /\ CheckpointPath(epoch, "state") \in DOMAIN files
                   /\ stamp[CheckpointPath(epoch, "state")].run = 1) =>
                      optimizer = files[CheckpointPath(epoch, "state")]

\* the three artifacts of key E exist
Complete(E) ==
    \A ext \in {"iter", "model", "state"} : CheckpointPath(E, ext) \in DOMAIN files

\* the step leaves file f as it is: same content, not written again
Untouched(f) ==
    /\ f \in DOMAIN files'
    /\ files'[f] = files[f]
    /\ stamp'[f] = stamp[f]

C13_LogFileMirrorsHistory == InLoop => (logExists /\ logFile = logs)

\* a run resumed in the directory of an earlier run has restored a history of
\* two entries or more and logged after that
C13_Witness ==
    /\ run = 2
    /\ InLoop
    /\ self.resume # None
    /\ prev.events # <<>>
    /\ Len(files[self.resume].logger.logs) >= 2
    /\ Len(logs) > Len(files[self.resume].logger.logs)
    /\ logFile = logs

\* the place of a phase in the body of the epoch loop
PhaseRank(kind) ==
    CASE kind = "train" -> 1
      [] kind = "validate" -> 2
      [] kind = "checkpoint" -> 3

\* C14: within an epoch the training pass ends before the validation pass
\* begins, validation ends before the checkpoint is written, and the
\* checkpoint is written before the training of the next epoch; when an
\* epoch both validates and saves, the log history stored in its checkpoint
\* ends with that epoch's validation entry.
C14_PhaseOrder ==
    /\ \A i \in 1..Len(events) :
          /\ i < Len(events) =>
                \/ events[i][2] < events[i + 1][2]
                \/ /\ events[i][2] = events[i + 1][2]
                   /\ PhaseRank(events[i][1]) < PhaseRank(events[i + 1][1])
          /\ events[i][1] # "train" =>
                \E j \in 1..(i - 1) : events[j] = <<"train", events[i][2]>>
    /\ \A E \in 1..MaxEpoch :
          (Did("validate", E) /\ Did("checkpoint", E)) =>
              LET history == files[CheckpointPath(E, "iter")].logger.logs
              IN /\ history # <<>>
                 /\ history[Len(history)] = <<"Validation/Loss", E * numTrain>>

\* a run validated and saved at epoch 10, with loss lines before the
\* validation entry, and trained epoch 11 after that
C14_Witness ==
    /\ numTrain > 0
    /\ Did("validate", 10)
    /\ Did("checkpoint", 10)
    /\ Did("train", 11)
    /\ Len(files[CheckpointPath(10, "iter")].logger.logs) > 1

\* the artifacts of the epoch keys before the current one
EarlierCheckpoints == {f \in DOMAIN files : f[1] < epoch}

\* C15: when the batch source, the model, the optimizer, a validation pass or
\* a checkpoint write fails during an epoch, the run stops at once: the
\* failing step completes no phase, the process then takes no step at all
\* (no training, validation, log entry or checkpoint write, no retry; only a
\* new process follows), and the checkpoints written before are unchanged.
C15_AbortOnFailure ==
    [][/\ (error = Ok /\ error' # Ok) =>
             /\ pc' \in {"aborted", "rejected"}
             /\ events' = events
             /\ epoch' = epoch
             /\ \A f \in EarlierCheckpoints : Untouched(f)
       /\ pc = "aborted" =>
             /\ pc' = "init"
             /\ run' = run + 1
             /\ UNCHANGED <<files, dirExists, logExists, logFile, stamp>>]_vars

\* the third write of a checkpoint save failed in a run that had logged and
\* saved complete checkpoints before
C15_Witness ==
    /\ SaveFailed
    /\ error[2][2] = "state"
    /\ logs # <<>>
    /\ \E f \in EarlierCheckpoints : Complete(f[1])

IsPrefix(s, t) == Len(s) <= Len(t) /\ SubSeq(t, 1, Len(s)) = s

\* C16: once a run has started fresh or restored its history, every later
\* log history of that run has every earlier one as a prefix; record appends
\* its one entry at the end; the one restore of a run comes before any entry
\* was recorded.
C16_LogHistoryAppendOnly ==
    [][/\ (InLoop /\ run' = run) => IsPrefix(logs, logs')
       /\ \A log \in {<<"Loss", model>>, <<"Validation/Loss", model>>} :
             write([logs |-> logs, file |-> logFile, tty |-> tty], log).logs
                 = Append(logs, log)
       /\ Restoring => (logs = <<>> /\ tty = <<>> /\ events = <<>>)]_vars

\* a resumed run has restored a history and recorded two entries after it
C16_Witness ==
    /\ run = 2
    /\ InLoop
    /\ self.resume # None
    /\ files[self.resume].logger.logs # <<>>
    /\ IsPrefix(files[self.resume].logger.logs, logs)
    /\ Len(logs) >= Len(files[self.resume].logger.logs) + 2

\* C17: restore(S) of a snapshot S that has a last entry emits to the live
\* stream exactly one line, that last entry, and writes to the log file
\* every entry of S once and in order; no other entry of S reaches the live
\* stream (and nothing at all when S is empty).
C17_RestoreOutput ==
    [][Restoring =>
          LET S == files[self.resume].logger.logs
          IN /\ logFile' = S
             /\ tty' = (IF S = <<>> THEN <<>> ELSE <<S[Len(S)]>>)]_vars

\* a second process has just restored a history of several entries into a
\* directory whose log was longer
C17_Witness ==
    /\ run = 2
    /\ JustRestored
    /\ pc = "train"
    /\ Len(logs) >= 2
    /\ logs[1] # logs[Len(logs)]
    /\ tty = <<logs[Len(logs)]>>
    /\ logFile = logs
    /\ \E f \in DOMAIN files :
          f[2] = "iter" /\ Len(files[f].logger.logs) > Len(logs)

\* The loss entries the claim gives the training pass of epoch e over B
\* batches in a fresh run: one for each batch index 0, 10, 20, ... below B,
\* ceil(B / 10) of them, each computed from the model the batch met.
LossEntries(e, B) ==
    [k \in 1..((B + 9) \div 10) |-> <<"Loss", (e - 1) * B + 10 * (k - 1)>>]

\* the one entry the claim gives a validation pass of epoch e
ValidationEntries(e, B) ==
    IF e % 10 = 0 THEN << <<"Validation/Loss", e * B>> >> ELSE <<>>

\* the log history after the epochs 1..e
RECURSIVE LogsThrough(_, _)
LogsThrough(e, B) ==
    IF e <= 0 THEN <<>>
    ELSE LogsThrough(e - 1, B) \o LossEntries(e, B) \o ValidationEntries(e, B)

\* C18: a training pass over B batches appends one loss entry for each batch
\* whose zero-based index is divisible by 10 and no other (ceil(B/10)
\* entries, none when B = 0), and each validation pass, over any finite
\* validation batch stream, appends exactly one entry after its batches.
C18_EntriesPerPass ==
    (InLoop /\ start_epoch = 1 /\ ~CollaboratorFailed) =>
        logs = (IF pc \in {"train", "done"}
                  THEN LogsThrough(epoch - 1, numTrain)
                ELSE IF pc = "test"
                  THEN LogsThrough(epoch - 1, numTrain) \o LossEntries(epoch, numTrain)
                ELSE LogsThrough(epoch, numTrain))

\* this process restored run metadata whose next epoch is beyond its total
\* epoch count
ResumedPastEnd ==
    /\ self # None
    /\ self.resume # None
    /\ pc # "constructed"
    /\ ~(pc = "aborted" /\ raisedAt = "constructed" /\ error[1] = "IOError")
    /\ start_epoch > self.epoch

\* C19: a run resumed with next_epoch > T (T + 1 after a completed run)
\* executes no training step, validation or checkpoint, writes no artifact,
\* and goes to DONE with its log history and its log file equal to the
\* restored history.
C19_ResumePastEnd ==
    ResumedPastEnd =>
        /\ pc \in {"train", "done"}
        /\ events = <<>>
        /\ \A f \in DOMAIN files : stamp[f].run # run
        /\ logs = files[self.resume].logger.logs
        /\ logFile = logs
        /\ model = files[self.resume_model]

\* the epochs of the checkpoint events of evs, in their order
RECURSIVE SavedIn(_)
SavedIn(evs) ==
    IF evs = <<>> THEN <<>>
    ELSE IF Head(evs)[1] = "checkpoint"
         THEN <<Head(evs)[2]>> \o SavedIn(Tail(evs))
         ELSE SavedIn(Tail(evs))

\* C20: every run metadata artifact a run writes is stored under the key of
\* the epoch E it has just completed and holds next_epoch = E + 1, with
\* 2 <= next_epoch <= T + 1; a run writes each key at most once and in
\* strictly increasing order; the last key of a completed fresh run is the
\* largest multiple of the checkpoint interval that is at most T.
C20_CheckpointMetadata ==
    InLoop =>
        LET saved == SavedIn(events)
        IN /\ \A i \in 1..Len(saved) :
                 /\ Did("train", saved[i])
                 /\ i > 1 => saved[i - 1] < saved[i]
                 /\ CheckpointPath(saved[i], "iter") \in DOMAIN files
                 /\ stamp[CheckpointPath(saved[i], "iter")].epoch = saved[i]
                 /\ files[CheckpointPath(saved[i], "iter")].epoch = saved[i] + 1
           /\ \A f \in DOMAIN files :
                 (f[2] = "iter" /\ stamp[f].run = run) =>
                     /\ stamp[f].epoch = f[1]
                     /\ files[f].epoch = f[1] + 1
                     /\ files[f].epoch >= 2
                     /\ files[f].epoch <= self.epoch + 1
                     /\ f[1] = epoch \/ Did("checkpoint", f[1])
           /\ (pc = "done" /\ start_epoch = 1) =>
                 /\ saved # <<>>
                 /\ saved[Len(saved)]
                        = self.epoch - (self.epoch % Max(1, self.epoch \div 10))

\* a fresh run of more than 20 epochs is done and its last checkpoint is of
\* an epoch before the last one
C20_Witness ==
    /\ pc = "done"
    /\ start_epoch = 1
    /\ self.epoch > 20
    /\ Len(SavedIn(events)) > 5
    /\ SavedIn(events)[Len(SavedIn(events))] < self.epoch

====
